---- MODULE Spec2Model ----
(***************************************************************************)
(* Model of lib/AST/AutoDiff.cpp: the parameter-index model of automatic   *)
(* differentiation (AutoDiffParameterIndices, SILAutoDiffIndices,          *)
(* Differentiability and the associated-function addressing).              *)
(*                                                                         *)
(* A bit vector (llvm::SmallBitVector) is a sequence of BOOLEAN; C++ index *)
(* i is TLA+ position i + 1.  A failed assert ends the process: operators  *)
(* return a record with abort = TRUE and the calling action sets aborted.  *)
(***************************************************************************)
EXTENDS Integers, Sequences, FiniteSets, TLC

VARIABLES
  paramIndices,   \* the AutoDiffParameterIndices object in use, or Null
  created,        \* how paramIndices was made by create(C, functionType, ..)
  requested,      \* bit positions asked for by the setters since creation
  call,           \* the last call: its name, arguments and return value
  aborted         \* TRUE once an assert failed

vars == <<paramIndices, created, requested, call, aborted>>

-----------------------------------------------------------------------------
(* Bounds of the model *)

MaxParams == 3

MaxStringLen == 4

MaxIndex == 2

MaxListLen == 2

MaxSource == 1

MaxBits == 5

MaxOrder == 50

-----------------------------------------------------------------------------
(* Machine arithmetic *)

\* the largest int; unsigned values up to it convert to int unchanged
IntMax == 2147483647

\* the result of an unsigned subtraction: a negative difference wraps around
\* to x + 2^32
ToUnsigned(x) == IF x < 0 THEN (x + IntMax) + IntMax + 2 ELSE x

\* the conversion (int)paramIdx of an unsigned value: values above IntMax
\* become negative
ToInt(u) == IF u > IntMax THEN ((u - IntMax) - IntMax) - 2 ELSE u

Max(a, b) == IF a >= b THEN a ELSE b

RECURSIVE Sum(_)
Sum(s) == IF s = <<>> THEN 0 ELSE Head(s) + Sum(Tail(s))

RECURSIVE max_element(_)
max_element(s) ==
  IF Len(s) = 1 THEN s[1] ELSE Max(s[1], max_element(Tail(s)))

SeqsUpTo(S, n) == UNION {[1..k -> S] : k \in 0..n}

-----------------------------------------------------------------------------
(* llvm::SmallBitVector *)

BVNew(n) == [i \in 1..n |-> FALSE]

BVResize(bv, n) == [i \in 1..n |-> IF i <= Len(bv) THEN bv[i] ELSE FALSE]

\* set(Idx)
BVSet(bv, idx) == [i \in 1..Len(bv) |-> IF i = idx + 1 THEN TRUE ELSE bv[i]]

\* set(I, E): the bits of [I, E)
BVSetRange(bv, lo, hi) ==
  [i \in 1..Len(bv) |-> IF lo < i /\ i <= hi THEN TRUE ELSE bv[i]]

\* set()
BVSetAll(bv) == [i \in 1..Len(bv) |-> TRUE]

\* operator^=: the left side grows to the longer size, missing bits are 0
BVXor(bv, rhs) ==
  LET n == Max(Len(bv), Len(rhs))
      l == BVResize(bv, n)
      r == BVResize(rhs, n)
  IN [i \in 1..n |-> l[i] # r[i]]

\* none()
BVNone(bv) == \A i \in 1..Len(bv) : ~bv[i]

\* the C++ indices of the set bits
SetBits(bv) == {i - 1 : i \in {j \in 1..Len(bv) : bv[j]}}

-----------------------------------------------------------------------------
(* Types and function types *)

Leaf(n) == [name |-> n]

TupleType(es) == [elements |-> es]

IsTuple(t) == "elements" \in DOMAIN t

IsFunctionType(t) == "params" \in DOMAIN t

ResultR == Leaf("R")

SelfType == Leaf("Self")

\* (ps) -> R
Plain(ps) == [params |-> ps, result |-> ResultR, hasSelfParam |-> FALSE]

\* (self) -> (ps) -> R
Curried(self, ps) ==
  [params |-> <<self>>, result |-> Plain(ps), hasSelfParam |-> TRUE]

\* (ps, self) -> R
Uncurried(self, ps) == Plain(Append(ps, self))

TupleBC == TupleType(<<Leaf("B"), Leaf("C")>>)

\* ((), (A, (B, C)))
NestedTuple == TupleType(<<TupleType(<<>>), TupleType(<<Leaf("A"), TupleBC>>)>>)

ParamTypes == {Leaf("A"), TupleBC, NestedTuple}

\* the parameter lists of the examples in the comments of the source
ExampleLists ==
  { <<Leaf("A"), Leaf("B"), Leaf("C")>>, <<Leaf("A"), TupleBC, Leaf("D")>> }

ParamLists ==
  SeqsUpTo(ParamTypes, MaxParams)
  \cup {ps \in ExampleLists : Len(ps) <= MaxParams}

Null == [present |-> FALSE]

NoCall == [op |-> "none"]

AbortResult == [abort |-> TRUE]

Ok(v) == [abort |-> FALSE, value |-> v]

-----------------------------------------------------------------------------
(* SILAutoDiffIndices *)

\* the loop of the constructor from element k on: the ascending assert, then
\* this->parameters.set(paramIdx)
RECURSIVE SetAscending(_, _, _, _)
SetAscending(parameters, k, last, bits) ==
  IF k > Len(parameters) THEN Ok(bits)
  ELSE IF ~(ToInt(parameters[k]) > last) THEN AbortResult
  ELSE SetAscending(parameters, k + 1, ToInt(parameters[k]),
                    BVSet(bits, parameters[k]))

SILAutoDiffIndices(source, parameters) ==
  IF parameters = <<>> THEN Ok([source |-> source, parameters |-> <<>>])
  ELSE LET max == max_element(parameters)
           loop == SetAscending(parameters, 1, -1,
                                BVResize(<<>>, max + 1))
       IN IF loop.abort THEN AbortResult
          ELSE Ok([source |-> source, parameters |-> loop.value])

\* operator== comparing the bit vectors with their sizes
operatorEq_SameSize(self, other) ==
  self.source = other.source /\ self.parameters = other.parameters

\* SILAutoDiffIndices::operator==
operatorEq(self, other) ==
  IF self.source # other.source THEN FALSE
  ELSE LET buffer0 == BVNew(Max(Len(self.parameters), Len(other.parameters)))
           buffer1 == BVXor(buffer0, self.parameters)
           buffer2 == BVXor(buffer1, other.parameters)
       IN BVNone(buffer2)

-----------------------------------------------------------------------------
(* Differentiability *)

\* Differentiability counting the parameters of the outer type always
DifferentiabilityFromType_OuterCount(mode, type) ==
  LET wrtSelf == type.hasSelfParam
  IN IF wrtSelf /\ ~IsFunctionType(type.result) THEN AbortResult
     ELSE Ok([mode |-> mode, wrtSelf |-> wrtSelf,
              parameterIndices |-> BVSetAll(BVNew(Len(type.params))),
              resultIndices |-> BVSetAll(BVNew(1))])

DifferentiabilityFromType(mode, type) ==
  LET wrtSelf == type.hasSelfParam
  IN IF wrtSelf /\ ~IsFunctionType(type.result) THEN AbortResult
     ELSE LET numParams == IF wrtSelf THEN Len(type.result.params)
                           ELSE Len(type.params)
          IN Ok([mode |-> mode, wrtSelf |-> wrtSelf,
                 parameterIndices |-> BVSetAll(BVNew(numParams)),
                 resultIndices |-> BVSetAll(BVNew(1))])

-----------------------------------------------------------------------------
(* Associated-function addressing *)

JVP == 0

VJP == 1

Kinds == {JVP, VJP}

getNumAutoDiffAssociatedFunctions(differentiationOrder) ==
  differentiationOrder * 2

getOffsetForAutoDiffAssociatedFunction(order, kind) ==
  ToUnsigned(order - 1) * getNumAutoDiffAssociatedFunctions(order) + kind

-----------------------------------------------------------------------------
(* AutoDiffParameterIndices *)

unwrapSelfParameter(functionType, isMethod) ==
  IF isMethod
  THEN IF Len(functionType.params) # 1 THEN AbortResult
       ELSE IF ~IsFunctionType(functionType.result) THEN AbortResult
       ELSE Ok(functionType.result)
  ELSE Ok(functionType)

\* the constructor AutoDiffParameterIndices(paramCount, isMethod, setAllParams)
NewParameterIndices(paramCount, isMethod, setAllParams) ==
  [present |-> TRUE,
   indices |-> IF setAllParams THEN BVSetAll(BVNew(paramCount))
               ELSE BVNew(paramCount),
   isMethodFlag |-> isMethod]

\* create(ASTContext &, AnyFunctionType *, bool, bool)
createFromType(functionType, isMethod, setAllParams) ==
  LET unwrapped == unwrapSelfParameter(functionType, isMethod)
  IN IF unwrapped.abort THEN AbortResult
     ELSE LET paramCount ==
                Len(unwrapped.value.params) + (IF isMethod THEN 1 ELSE 0)
          IN Ok(NewParameterIndices(paramCount, isMethod, setAllParams))

\* ParseFlags taking every character other than 'S' for 'U'
RECURSIVE ParseFlags_Lenient(_, _, _)
ParseFlags_Lenient(string, i, indices) ==
  IF i >= Len(indices) THEN [valid |-> TRUE, indices |-> indices]
  ELSE IF string[i + 2] = "S"
  THEN ParseFlags_Lenient(string, i + 1, BVSet(indices, i))
  ELSE ParseFlags_Lenient(string, i + 1, indices)

\* the loop of create(ASTContext &, StringRef) from index i on
RECURSIVE ParseFlags(_, _, _)
ParseFlags(string, i, indices) ==
  IF i >= Len(indices) THEN [valid |-> TRUE, indices |-> indices]
  ELSE IF string[i + 2] = "S" THEN ParseFlags(string, i + 1, BVSet(indices, i))
  ELSE IF string[i + 2] # "U" THEN [valid |-> FALSE]
  ELSE ParseFlags(string, i + 1, indices)

\* create(ASTContext &, StringRef): Null stands for nullptr
createFromString(string) ==
  IF Len(string) < 2 THEN Null
  ELSE LET indices0 == BVNew(Len(string) - 1)
       IN IF string[1] # "M" /\ string[1] # "F" THEN Null
          ELSE LET parsed == ParseFlags(string, 0, indices0)
               IN IF ~parsed.valid THEN Null
                  ELSE [present |-> TRUE, indices |-> parsed.indices,
                        isMethodFlag |-> (string[1] = "M")]

getString(self) ==
  <<IF self.isMethodFlag THEN "M" ELSE "F">>
  \o [i \in 1..Len(self.indices) |-> IF self.indices[i] THEN "S" ELSE "U"]

getNumNonSelfParameters(self) ==
  ToUnsigned(Len(self.indices) - (IF self.isMethodFlag THEN 1 ELSE 0))

\* setNonSelfParameter checking the index against indices.size()
setNonSelfParameter_SizeCheck(self, paramIndex) ==
  IF ~(paramIndex < Len(self.indices)) THEN AbortResult
  ELSE Ok([self EXCEPT !.indices = BVSet(self.indices, paramIndex)])

setNonSelfParameter(self, paramIndex) ==
  IF ~(paramIndex < getNumNonSelfParameters(self)) THEN AbortResult
  ELSE Ok([self EXCEPT !.indices = BVSet(self.indices, paramIndex)])

\* setAllNonSelfParameters setting the receiver's bit too
setAllNonSelfParameters_All(self) ==
  [self EXCEPT !.indices = BVSetAll(self.indices)]

setAllNonSelfParameters(self) ==
  [self EXCEPT
     !.indices = BVSetRange(self.indices, 0, getNumNonSelfParameters(self))]

setSelfParameter(self) ==
  IF ~self.isMethodFlag THEN AbortResult
  ELSE Ok([self EXCEPT !.indices = BVSet(self.indices, Len(self.indices) - 1)])

\* for paramIndex in [i, n): push params[paramIndex] when its bit is set
RECURSIVE PushSelected(_, _, _, _)
PushSelected(indices, params, i, n) ==
  IF i >= n THEN <<>>
  ELSE (IF indices[i + 1] THEN <<params[i + 1]>> ELSE <<>>)
       \o PushSelected(indices, params, i + 1, n)

getSubsetParameterTypes(self, functionType, selfUncurried) ==
  IF selfUncurried /\ self.isMethodFlag
  THEN LET numParams == Len(functionType.params)
           selfPart == IF self.isMethodFlag /\ self.indices[Len(self.indices)]
                       THEN <<functionType.params[numParams]>> ELSE <<>>
       IN Ok(selfPart \o PushSelected(self.indices, functionType.params, 0,
                                      ToUnsigned(numParams - 1)))
  ELSE LET unwrapped == unwrapSelfParameter(functionType, self.isMethodFlag)
       IN IF unwrapped.abort THEN AbortResult
          ELSE LET selfFirst ==
                     IF self.isMethodFlag /\ self.indices[Len(self.indices)]
                     THEN <<functionType.params[1]>> ELSE <<>>
               IN Ok(selfFirst
                     \o PushSelected(self.indices, unwrapped.value.params, 0,
                                     Len(unwrapped.value.params)))

\* countNumFlattenedElementTypes counting a tuple's elements, not their leaves
countNumFlattenedElementTypes_Shallow(type) ==
  IF IsTuple(type) THEN Len(type.elements) ELSE 1

RECURSIVE countNumFlattenedElementTypes(_)
countNumFlattenedElementTypes(type) ==
  IF IsTuple(type)
  THEN Sum([i \in 1..Len(type.elements) |->
              countNumFlattenedElementTypes(type.elements[i])])
  ELSE 1

\* the second loop of getLowered from index i on
RECURSIVE SetLoweredRanges(_, _, _, _, _)
SetLoweredRanges(indices, paramLoweredSizes, i, currentBitIndex, result) ==
  IF i >= Len(indices) THEN result
  ELSE LET paramLoweredSize == paramLoweredSizes[i + 1]
       IN SetLoweredRanges(indices, paramLoweredSizes, i + 1,
            currentBitIndex + paramLoweredSize,
            IF indices[i + 1]
            THEN BVSetRange(result, currentBitIndex,
                            currentBitIndex + paramLoweredSize)
            ELSE result)

\* getLowered adding the size of params[0] for every method, uncurried or not
getLowered_AlwaysSelf(self, functionType, selfUncurried) ==
  LET unwrapped == IF selfUncurried THEN Ok(functionType)
                   ELSE unwrapSelfParameter(functionType, self.isMethodFlag)
  IN IF unwrapped.abort THEN AbortResult
     ELSE LET ps == unwrapped.value.params
              sizes0 == [i \in 1..Len(ps) |-> countNumFlattenedElementTypes(ps[i])]
              paramLoweredSizes ==
                IF self.isMethodFlag
                THEN Append(sizes0,
                            countNumFlattenedElementTypes(functionType.params[1]))
                ELSE sizes0
          IN Ok(SetLoweredRanges(self.indices, paramLoweredSizes, 0, 0,
                                 BVNew(Sum(paramLoweredSizes))))

getLowered(self, functionType, selfUncurried) ==
  LET unwrapped == IF selfUncurried THEN Ok(functionType)
                   ELSE unwrapSelfParameter(functionType, self.isMethodFlag)
  IN IF unwrapped.abort THEN AbortResult
     ELSE LET ps == unwrapped.value.params
              sizes0 == [i \in 1..Len(ps) |-> countNumFlattenedElementTypes(ps[i])]
              paramLoweredSizes ==
                IF self.isMethodFlag /\ ~selfUncurried
                THEN Append(sizes0,
                            countNumFlattenedElementTypes(functionType.params[1]))
                ELSE sizes0
              totalLoweredSize == Sum(paramLoweredSizes)
          IN Ok(SetLoweredRanges(self.indices, paramLoweredSizes, 0, 0,
                                 BVNew(totalLoweredSize)))

-----------------------------------------------------------------------------
(* Inputs of the calls *)

Chars == {"F", "M", "S", "U", "X"}

InputStrings == SeqsUpTo(Chars, MaxStringLen)

\* well-formed shapes: (ps) -> R and (Self) -> (ps) -> R
FunctionTypes ==
  {Plain(ps) : ps \in ParamLists} \cup {Curried(SelfType, ps) : ps \in ParamLists}

\* a type flagged as having self whose result is no function type
MalformedTypes ==
  {[params |-> ps, result |-> ResultR, hasSelfParam |-> TRUE] : ps \in ParamLists}

IndexLists == SeqsUpTo(0..MaxIndex, MaxListLen)

BitVectors == SeqsUpTo(BOOLEAN, MaxBits)

IndicesValues == [source : 0..MaxSource, parameters : BitVectors]

Modes == {"Forward", "Reverse"}

NotCreated == [present |-> FALSE]

-----------------------------------------------------------------------------
(* State machine *)

\* no call has been made yet
FirstCall == call = NoCall

\* the const queries that take a function type
IsQuery(op) == op \in {"getSubsetParameterTypes", "getLowered"}

Init ==
  /\ paramIndices = Null
  /\ created = NotCreated
  /\ requested = {}
  /\ call = NoCall
  /\ aborted = FALSE

\* AutoDiffParameterIndices::create(C, functionType, isMethod, setAllParams)
Call_createFromType ==
  /\ ~aborted
  /\ FirstCall
  /\ \E functionType \in FunctionTypes \cup MalformedTypes,
        isMethod \in BOOLEAN, setAllParams \in BOOLEAN :
       LET r == createFromType(functionType, isMethod, setAllParams)
       IN /\ call' = [op |-> "create", functionType |-> functionType,
                      isMethod |-> isMethod, setAllParams |-> setAllParams]
          /\ aborted' = r.abort
          /\ IF r.abort
             THEN UNCHANGED <<paramIndices, created, requested>>
             ELSE /\ paramIndices' = r.value
                  /\ created' =
                       [present |-> TRUE,
                        nonSelfParamCount |->
                          IF isMethod THEN Len(functionType.result.params)
                          ELSE Len(functionType.params),
                        isMethod |-> isMethod,
                        setAll |-> setAllParams]
                  /\ requested' = {}

\* AutoDiffParameterIndices::create(C, string) on a string read from outside
Call_createFromString ==
  /\ ~aborted
  /\ FirstCall
  /\ \E string \in InputStrings :
       /\ call' = [op |-> "createFromString", string |-> string,
                   ret |-> createFromString(string), roundTripOf |-> Null]
       /\ paramIndices' = createFromString(string)
  /\ UNCHANGED <<created, requested, aborted>>

Call_getString ==
  /\ ~aborted
  /\ paramIndices.present
  /\ call' = [op |-> "getString", ret |-> getString(paramIndices)]
  /\ UNCHANGED <<paramIndices, created, requested, aborted>>

\* create(C, string) on the string that getString has just returned: the new
\* object takes the place of the one the string was made from
Call_createFromGetString ==
  /\ ~aborted
  /\ call.op = "getString"
  /\ call' = [op |-> "createFromString", string |-> call.ret,
              ret |-> createFromString(call.ret),
              roundTripOf |-> paramIndices]
  /\ paramIndices' = createFromString(call.ret)
  /\ created' = NotCreated
  /\ requested' = {}
  /\ UNCHANGED aborted

Call_setNonSelfParameter ==
  /\ ~aborted
  /\ paramIndices.present
  /\ \E paramIndex \in 0..(MaxParams + 1) :
       LET r == setNonSelfParameter(paramIndices, paramIndex)
       IN /\ call' = [op |-> "setNonSelfParameter", paramIndex |-> paramIndex,
                      before |-> paramIndices]
          /\ aborted' = r.abort
          /\ paramIndices' = IF r.abort THEN paramIndices ELSE r.value
          /\ requested' = IF r.abort \/ ~created.present THEN requested
                          ELSE requested \cup {paramIndex}
  /\ UNCHANGED created

Call_setAllNonSelfParameters ==
  /\ ~aborted
  /\ paramIndices.present
  /\ call' = [op |-> "setAllNonSelfParameters", before |-> paramIndices]
  /\ paramIndices' = setAllNonSelfParameters(paramIndices)
  /\ requested' = IF created.present
                  THEN requested \cup (0..(created.nonSelfParamCount - 1))
                  ELSE requested
  /\ UNCHANGED <<created, aborted>>

Call_setSelfParameter ==
  /\ ~aborted
  /\ paramIndices.present
  /\ LET r == setSelfParameter(paramIndices)
     IN /\ call' = [op |-> "setSelfParameter", before |-> paramIndices]
        /\ aborted' = r.abort
        /\ paramIndices' = IF r.abort THEN paramIndices ELSE r.value
        /\ requested' = IF r.abort \/ ~created.present THEN requested
                        ELSE requested \cup {created.nonSelfParamCount}
  /\ UNCHANGED created

\* the function type a caller passes for the shape with non-self parameters
\* ps: curried for a method unless selfUncurried, when Self comes last
Presentation(isMethod, ps, selfUncurried) ==
  IF ~isMethod THEN Plain(ps)
  ELSE IF selfUncurried THEN Uncurried(SelfType, ps)
  ELSE Curried(SelfType, ps)

\* the parameter lists with as many parameters as self has non-self bits
MatchingLists(self) ==
  {ps \in ParamLists : Len(ps) = getNumNonSelfParameters(self)}

\* getSubsetParameterTypes is const: the state after it differs from the one
\* before only in the recorded call, so it is called from states whose last
\* call is no query
Call_getSubsetParameterTypes ==
  /\ ~aborted
  /\ paramIndices.present
  /\ ~IsQuery(call.op)
  /\ \E ps \in MatchingLists(paramIndices), selfUncurried \in BOOLEAN :
       LET functionType ==
             Presentation(paramIndices.isMethodFlag, ps, selfUncurried)
           r == getSubsetParameterTypes(paramIndices, functionType,
                                        selfUncurried)
       IN /\ call' = [op |-> "getSubsetParameterTypes", nonSelf |-> ps,
                      functionType |-> functionType,
                      selfUncurried |-> selfUncurried, ret |-> r]
          /\ aborted' = r.abort
  /\ UNCHANGED <<paramIndices, created, requested>>

\* getLowered is const as well
Call_getLowered ==
  /\ ~aborted
  /\ paramIndices.present
  /\ ~IsQuery(call.op)
  /\ \E ps \in MatchingLists(paramIndices), selfUncurried \in BOOLEAN :
       LET functionType ==
             Presentation(paramIndices.isMethodFlag, ps, selfUncurried)
           r == getLowered(paramIndices, functionType, selfUncurried)
       IN /\ call' = [op |-> "getLowered", nonSelf |-> ps,
                      functionType |-> functionType,
                      selfUncurried |-> selfUncurried, ret |-> r]
          /\ aborted' = r.abort
  /\ UNCHANGED <<paramIndices, created, requested>>

\* SILAutoDiffIndices(source, parameters)
Call_SILAutoDiffIndices ==
  /\ ~aborted
  /\ FirstCall
  /\ \E source \in 0..MaxSource, parameters \in IndexLists :
       LET r == SILAutoDiffIndices(source, parameters)
       IN /\ call' = [op |-> "SILAutoDiffIndices", source |-> source,
                      parameters |-> parameters, ret |-> r]
          /\ aborted' = r.abort
  /\ UNCHANGED <<paramIndices, created, requested>>

\* lhs == rhs on two SILAutoDiffIndices values
Call_operatorEq ==
  /\ ~aborted
  /\ FirstCall
  /\ \E lhs \in IndicesValues, rhs \in IndicesValues :
       call' = [op |-> "operator==", lhs |-> lhs, rhs |-> rhs,
                ret |-> operatorEq(lhs, rhs)]
  /\ UNCHANGED <<paramIndices, created, requested, aborted>>

\* SILAutoDiffIndices(r1, l1) == SILAutoDiffIndices(r2, l2)
Call_compareConstructed ==
  /\ ~aborted
  /\ FirstCall
  /\ \E r1 \in 0..MaxSource, r2 \in 0..MaxSource,
        l1 \in IndexLists, l2 \in IndexLists :
       LET lhs == SILAutoDiffIndices(r1, l1)
           rhs == SILAutoDiffIndices(r2, l2)
       IN IF lhs.abort \/ rhs.abort
          THEN /\ aborted' = TRUE
               /\ call' = [op |-> "construct==", r1 |-> r1, l1 |-> l1,
                           r2 |-> r2, l2 |-> l2]
          ELSE /\ aborted' = FALSE
               /\ call' = [op |-> "construct==", r1 |-> r1, l1 |-> l1,
                           r2 |-> r2, l2 |-> l2, lhs |-> lhs.value,
                           rhs |-> rhs.value,
                           ret |-> operatorEq(lhs.value, rhs.value)]
  /\ UNCHANGED <<paramIndices, created, requested>>

\* Differentiability(mode, type)
Call_Differentiability ==
  /\ ~aborted
  /\ FirstCall
  /\ \E mode \in Modes, type \in FunctionTypes \cup MalformedTypes :
       LET r == DifferentiabilityFromType(mode, type)
       IN /\ call' = [op |-> "Differentiability", mode |-> mode,
                      type |-> type, ret |-> r]
          /\ aborted' = r.abort
  /\ UNCHANGED <<paramIndices, created, requested>>

Call_getNumAutoDiffAssociatedFunctions ==
  /\ ~aborted
  /\ FirstCall
  /\ \E differentiationOrder \in 1..MaxOrder :
       call' = [op |-> "getNumAutoDiffAssociatedFunctions",
                order |-> differentiationOrder,
                ret |-> getNumAutoDiffAssociatedFunctions(differentiationOrder)]
  /\ UNCHANGED <<paramIndices, created, requested, aborted>>

Call_getOffsetForAutoDiffAssociatedFunction ==
  /\ ~aborted
  /\ FirstCall
  /\ \E order \in 1..MaxOrder, kind \in Kinds :
       call' = [op |-> "getOffsetForAutoDiffAssociatedFunction",
                order |-> order, kind |-> kind,
                ret |-> getOffsetForAutoDiffAssociatedFunction(order, kind)]
  /\ UNCHANGED <<paramIndices, created, requested, aborted>>

\* one AutoDiffParameterIndices from its creation on, and the asserting
\* constructor of SILAutoDiffIndices
Next ==
  \/ Call_createFromType
  \/ Call_createFromString
  \/ Call_getString
  \/ Call_createFromGetString
  \/ Call_setNonSelfParameter
  \/ Call_setAllNonSelfParameters
  \/ Call_setSelfParameter
  \/ Call_getSubsetParameterTypes
  \/ Call_getLowered
  \/ Call_SILAutoDiffIndices

Spec == Init /\ [][Next]_vars

\* SILAutoDiffIndices values: construction and comparison
NextPair ==
  \/ Call_SILAutoDiffIndices
  \/ Call_operatorEq
  \/ Call_compareConstructed

SpecPair == Init /\ [][NextPair]_vars

\* Differentiability derived from a function type
NextDiff == Call_Differentiability

SpecDiff == Init /\ [][NextDiff]_vars

\* associated-function addressing
NextAddr ==
  \/ Call_getNumAutoDiffAssociatedFunctions
  \/ Call_getOffsetForAutoDiffAssociatedFunction

SpecAddr == Init /\ [][NextAddr]_vars

-----------------------------------------------------------------------------
(* Properties *)

RECURSIVE Concat(_)
Concat(ss) == IF ss = <<>> THEN <<>> ELSE Head(ss) \o Concat(Tail(ss))

\* the leaf types of a type, tuples expanded, from left to right
RECURSIVE Leaves(_)
Leaves(t) ==
  IF IsTuple(t)
  THEN Concat([i \in 1..Len(t.elements) |-> Leaves(t.elements[i])])
  ELSE <<t>>

\* the types whose bit is set, in the order of types
RECURSIVE Pick(_, _)
Pick(types, bits) ==
  IF types = <<>> THEN <<>>
  ELSE (IF Head(bits) THEN <<Head(types)>> ELSE <<>>)
       \o Pick(Tail(types), Tail(bits))

Range(f) == {f[i] : i \in DOMAIN f}

StrictlyAscending(list) == \A i \in 1..(Len(list) - 1) : list[i] < list[i + 1]

\* C1: parsing the string getString returned yields a present index set equal
\* to the one the string was made from: the same isMethod flag, the same
\* length and the same set bits, for every length from 0 on.
C1_RoundTrip ==
  (call.op = "createFromString" /\ call.roundTripOf.present)
    => /\ paramIndices.present
       /\ paramIndices.isMethodFlag = call.roundTripOf.isMethodFlag
       /\ paramIndices.indices = call.roundTripOf.indices

\* the string is malformed: too short, a bad marker or a bad flag
Malformed(string) ==
  \/ Len(string) < 2
  \/ string[1] \notin {"F", "M"}
  \/ \E i \in 2..Len(string) : string[i] \notin {"S", "U"}

\* C2: create(C, string) returns nullptr exactly for the malformed strings
\* and never aborts; for every other string the result has
\* isMethod = (s[0] = 'M'), length |s| - 1 and bit i set iff s[i+1] = 'S'.
C2_ParseTotal ==
  call.op = "createFromString"
    => /\ ~aborted
       /\ call.ret.present <=> ~Malformed(call.string)
       /\ call.ret.present =>
            /\ call.ret.isMethodFlag = (call.string[1] = "M")
            /\ Len(call.ret.indices) = Len(call.string) - 1
            /\ \A i \in 0..(Len(call.string) - 2) :
                 call.ret.indices[i + 1] = (call.string[i + 2] = "S")

C2_Witness ==
  /\ call.op = "createFromString"
  /\ call.string = <<"M", "S", "U">>
  /\ paramIndices = [present |-> TRUE, indices |-> <<TRUE, FALSE>>,
                     isMethodFlag |-> TRUE]

\* the logical parameters of the shape a query was called for: the non-self
\* parameters in declaration order, the receiver last
LogicalParams == call.nonSelf \o (IF paramIndices.isMethodFlag THEN <<SelfType>> ELSE <<>>)

\* C3: getLowered returns a vector as long as the flattened widths of the
\* logical parameters together, and the bits of the range of each logical
\* parameter are set exactly when the parameter is in the index set.
C3_Lowered ==
  call.op = "getLowered"
    => LET width == [i \in 1..Len(LogicalParams) |-> Len(Leaves(LogicalParams[i]))]
           start == [i \in 1..Len(LogicalParams) |-> Sum(SubSeq(width, 1, i - 1))]
       IN /\ ~call.ret.abort
          /\ Len(call.ret.value) = Sum(width)
          /\ \A i \in 1..Len(LogicalParams) :
               \A j \in start[i]..(start[i] + width[i] - 1) :
                 call.ret.value[j + 1] = paramIndices.indices[i]

C3_Witness ==
  /\ call.op = "getLowered"
  /\ call.functionType = Plain(<<Leaf("A"), TupleBC, Leaf("D")>>)
  /\ paramIndices.indices = <<TRUE, TRUE, FALSE>>
  /\ call.ret.value = <<TRUE, TRUE, TRUE, FALSE>>

\* C4: getSubsetParameterTypes pushes the types of the parameters whose bit
\* is set, in the order in which the parameters appear in the function type
\* passed in: Self first for (Self) -> (A, B, C) -> R, Self last for the
\* uncurried (A, B, C, Self) -> R.
C4_SubsetInOrderOfAppearance ==
  call.op = "getSubsetParameterTypes"
    => LET n == Len(paramIndices.indices)
           curried == paramIndices.isMethodFlag /\ ~call.selfUncurried
           appearing == IF curried
                        THEN call.functionType.params
                             \o call.functionType.result.params
                        ELSE call.functionType.params
           bits == IF curried
                   THEN <<paramIndices.indices[n]>>
                        \o SubSeq(paramIndices.indices, 1, n - 1)
                   ELSE paramIndices.indices
       IN /\ ~call.ret.abort
          /\ call.ret.value = Pick(appearing, bits)

\* C5: an index set made by create(C, functionType, isMethod, setAllParams)
\* keeps length nonSelfParamCount + (isMethod ? 1 : 0) and its isMethod flag
\* through every sequence of setters; its set bits are the initial ones (all
\* or none) and those the setters were asked for; no call clears a bit.
C5_IndexSetInvariant ==
  created.present
    => /\ paramIndices.present
       /\ Len(paramIndices.indices)
            = created.nonSelfParamCount + (IF created.isMethod THEN 1 ELSE 0)
       /\ paramIndices.isMethodFlag = created.isMethod
       /\ getNumNonSelfParameters(paramIndices) = created.nonSelfParamCount
       /\ SetBits(paramIndices.indices)
            = (IF created.setAll THEN 0..(Len(paramIndices.indices) - 1) ELSE {})
              \cup requested
       /\ "before" \in DOMAIN call
            => SetBits(call.before.indices) \subseteq SetBits(paramIndices.indices)

C5_Witness ==
  /\ created.present
  /\ created.isMethod
  /\ ~created.setAll
  /\ created.nonSelfParamCount = 2
  /\ call.op = "setSelfParameter"
  /\ requested = {0, 2}
  /\ paramIndices.indices = <<TRUE, FALSE, TRUE>>

\* C6: a setNonSelfParameter(i) with i >= numNonSelfParameters(), a
\* setSelfParameter() on a set that is no method's, and a SILAutoDiffIndices
\* made from a list that is not strictly ascending each abort: nothing is
\* returned and the index set is left as it was.
C6_ContractViolationsAbort ==
  /\ (/\ call.op = "setNonSelfParameter"
      /\ call.paramIndex >= Len(call.before.indices)
                              - (IF call.before.isMethodFlag THEN 1 ELSE 0))
       => aborted /\ paramIndices = call.before
  /\ (call.op = "setSelfParameter" /\ ~call.before.isMethodFlag)
       => aborted /\ paramIndices = call.before
  /\ (call.op = "SILAutoDiffIndices" /\ ~StrictlyAscending(call.parameters))
       => aborted /\ call.ret.abort

C6_Witness ==
  /\ aborted
  /\ call.op = "SILAutoDiffIndices"
  /\ call.parameters = <<2, 1>>

\* C7: two SILAutoDiffIndices are equal exactly when their sources are equal
\* and the same parameter indices are set, whatever the lengths of the two
\* bit vectors; made from strictly ascending lists they are equal exactly
\* when the sources are equal and the lists hold the same indices.
C7_ContentEquality ==
  /\ call.op = "operator=="
       => call.ret = (/\ call.lhs.source = call.rhs.source
                      /\ SetBits(call.lhs.parameters) = SetBits(call.rhs.parameters))
  /\ (call.op = "construct==" /\ ~aborted)
       => /\ call.ret = (call.r1 = call.r2 /\ Range(call.l1) = Range(call.l2))
          /\ SetBits(call.lhs.parameters) = Range(call.l1)
          /\ SetBits(call.rhs.parameters) = Range(call.l2)

C7_Witness ==
  /\ call.op = "operator=="
  /\ call.lhs.parameters = <<TRUE, FALSE, TRUE>>
  /\ call.rhs.parameters = <<TRUE, FALSE, TRUE, FALSE, FALSE>>
  /\ call.ret = TRUE

\* C8: the offsets of the orders 1..N and the two kinds are pairwise
\* distinct, each smaller than numAssociatedFunctions(N) = 2N, and together
\* they fill the slots 0..2N-1; stated for N the order of the call.
C8_DenseTable ==
  /\ call.op = "getNumAutoDiffAssociatedFunctions" => call.ret = 2 * call.order
  /\ call.op = "getOffsetForAutoDiffAssociatedFunction"
       => LET offsets ==
                {getOffsetForAutoDiffAssociatedFunction(o, k) :
                   o \in 1..call.order, k \in Kinds}
          IN /\ call.ret \in offsets
             /\ call.ret < getNumAutoDiffAssociatedFunctions(call.order)
             /\ Cardinality(offsets) = 2 * call.order
             /\ offsets = 0..(2 * call.order - 1)

\* C9 as claimed: wrtSelf mirrors the receiver, parameterIndices is all set
\* and as long as the uncurried parameter list (the receiver counted),
\* resultIndices is one set bit.
C9_UncurriedCount ==
  (call.op = "Differentiability" /\ ~call.ret.abort)
    => /\ call.ret.value.wrtSelf = call.type.hasSelfParam
       /\ call.ret.value.parameterIndices
            = [i \in 1..(IF call.type.hasSelfParam
                         THEN Len(call.type.result.params) + 1
                         ELSE Len(call.type.params)) |-> TRUE]
       /\ call.ret.value.resultIndices = <<TRUE>>

\* C9 amended: parameterIndices is all set and as long as the list of
\* non-self parameters (the receiver is recorded by wrtSelf alone).
C9_NonSelfCount ==
  (call.op = "Differentiability" /\ ~call.ret.abort)
    => /\ call.ret.value.wrtSelf = call.type.hasSelfParam
       /\ call.ret.value.parameterIndices
            = [i \in 1..(IF call.type.hasSelfParam
                         THEN Len(call.type.result.params)
                         ELSE Len(call.type.params)) |-> TRUE]
       /\ call.ret.value.resultIndices = <<TRUE>>

C9_Witness ==
  /\ call.op = "Differentiability"
  /\ call.type = Curried(SelfType, <<Leaf("A"), TupleBC>>)
  /\ call.ret.value.wrtSelf
  /\ call.ret.value.parameterIndices = <<TRUE, TRUE>>

====
